---- MODULE Spec2Model ----
(***************************************************************************)
(* The OPAQUE message codec of src/messages.rs: the six wire messages,     *)
(* their serialize / deserialize operations and RegistrationUpload::dummy. *)
(* Byte buffers are sequences over a small byte alphabet; a ciphersuite is  *)
(* the set of lengths below.  A Rust slice expression that would index out  *)
(* of range is modelled as the result Panic.                                *)
(***************************************************************************)
EXTENDS Integers, Sequences, FiniteSets, TLC

VARIABLES op, msg, wire, have_wire, res, sent, rcvd, rng, server_setup, calls

vars == <<op, msg, wire, have_wire, res, sent, rcvd, rng, server_setup, calls>>

----------------------------------------------------------------------------
(* Bounds of the model: the byte alphabet and the ciphersuite's lengths.   *)

MaxByte == 3
ElemLen == 1
PkLen == 1
HashLen == 1
EnvNonceLen == 1
KE1Len == 1
KE2Len == 2
KE3Len == 1
MaxExtra == 1
MaxSeed == 1
MaxCalls == 2

(* let nonce_len: usize = 32 in CredentialResponse::deserialize *)
NonceLen == 32

Base == MaxByte + 1
Byte == 0..MaxByte

----------------------------------------------------------------------------
(* Byte strings.                                                           *)

Strs(n) == [1..n -> Byte]

Pat(seed, n) == [i \in 1..n |-> (seed + i) % Base]

PatSet(n) == {Pat(seed, n) : seed \in 0..MaxSeed}

Zeros(n) == [i \in 1..n |-> 0]

Min(a, b) == IF a < b THEN a ELSE b

RECURSIVE Pow(_, _)
Pow(b, n) == IF n = 0 THEN 1 ELSE b * Pow(b, n - 1)

RECURSIVE FromDigits(_, _)
FromDigits(s, i) ==
  IF i > Len(s) THEN 0 ELSE s[i] * Pow(Base, i - 1) + FromDigits(s, i + 1)

ToDigits(v, n) == [i \in 1..n |-> (v \div Pow(Base, i - 1)) % Base]

----------------------------------------------------------------------------
(* Results.  ValOk / ValErr carry a field value, Ok / Err a message.       *)

NoMsg == [type |-> "None"]

Ok(m) == [tag |-> "Ok", err |-> "", msg |-> m]

Err(e) == [tag |-> "Err", err |-> e, msg |-> NoMsg]

Panic == [tag |-> "Panic", err |-> "", msg |-> NoMsg]

NoRes == [tag |-> "None", err |-> "", msg |-> NoMsg]

ValOk(v) == [tag |-> "Ok", err |-> "", val |-> v]

ValErr(e) == [tag |-> "Err", err |-> e, val |-> <<>>]

(* A Rust range slice s[a..b] (0-based, half open): in range, or a panic.  *)
Slice(s, a, b) ==
  IF a <= b /\ b <= Len(s)
  THEN [ok |-> TRUE, v |-> SubSeq(s, a + 1, b)]
  ELSE [ok |-> FALSE, v |-> <<>>]

SliceFrom(s, a) == Slice(s, a, Len(s))

SliceTo(s, b) == Slice(s, 0, b)

----------------------------------------------------------------------------
(* External collaborators, modelled at their interface.                    *)

check_slice_size(slice, expected_len) ==
  IF Len(slice) # expected_len THEN ValErr("SizeError") ELSE ValOk(slice)

check_slice_size_atleast(slice, expected_len) ==
  IF Len(slice) < expected_len THEN ValErr("SizeError") ELSE ValOk(slice)

(* A group element is a number; its encoding is its ElemLen little-endian  *)
(* digits, canonical when the top digit is below MaxByte.  0 is the        *)
(* identity.                                                               *)
Elements == 0..(Pow(Base, ElemLen - 1) * MaxByte - 1)

is_identity(e) == e = 0

Element_to_arr(e) == ToDigits(e, ElemLen)

Element_deserialize(input) ==
  LET checked == check_slice_size(input, ElemLen) IN
  IF checked.tag # "Ok" THEN ValErr(checked.err)
  ELSE IF checked.val[ElemLen] = MaxByte THEN ValErr("PointError")
  ELSE ValOk(FromDigits(checked.val, 1))

(* A public key holds its PkLen bytes.                                     *)
PublicKey_from_bytes(bytes) ==
  LET checked == check_slice_size(bytes, PkLen) IN
  IF checked.tag # "Ok" THEN ValErr(checked.err) ELSE ValOk(checked.val)

PublicKey_to_arr(pk) == pk

check_public_key(key) ==
  IF key[PkLen] = MaxByte \/ key = Zeros(PkLen)
  THEN ValErr("PointError")
  ELSE ValOk(key)

(* An envelope is a nonce and an authentication tag.                       *)
Envelope_len == EnvNonceLen + HashLen

Envelope_serialize(envelope) == envelope.nonce \o envelope.hmac

Envelope_deserialize(bytes) ==
  LET checked == check_slice_size(bytes, Envelope_len) IN
  IF checked.tag # "Ok" THEN ValErr(checked.err)
  ELSE ValOk([nonce |-> SubSeq(checked.val, 1, EnvNonceLen),
              hmac |-> SubSeq(checked.val, EnvNonceLen + 1, Envelope_len)])

Envelope_dummy == [nonce |-> Zeros(EnvNonceLen), hmac |-> Zeros(HashLen)]

(* Key-exchange payloads: opaque blobs of a ciphersuite-determined length. *)
ke2_message_size == KE2Len

KE_to_bytes(ke) == ke.payload

KE_from_bytes(bytes, len) ==
  LET checked == check_slice_size(bytes, len) IN
  IF checked.tag # "Ok" THEN ValErr(checked.err)
  ELSE ValOk([payload |-> checked.val])

(* A generator's state is the stream it will yield, as a cycle.            *)
RngLen == HashLen + 2

fill_bytes(g, n) ==
  [bytes |-> [i \in 1..n |-> g[((i - 1) % Len(g)) + 1]],
   next |-> [i \in 1..Len(g) |-> g[((i - 1 + n) % Len(g)) + 1]]]

----------------------------------------------------------------------------
(* RegistrationRequest                                                     *)

RegistrationRequest_serialize(m) == Element_to_arr(m.blinded_element)

(* Faulty variant: decodes the first ElemLen bytes and ignores the rest.   *)
RegistrationRequest_deserialize_prefix(input) ==
  LET e == Element_deserialize(SubSeq(input, 1, Min(Len(input), ElemLen))) IN
  IF e.tag # "Ok" THEN Err(e.err)
  ELSE Ok([type |-> "RegistrationRequest", blinded_element |-> e.val])

RegistrationRequest_deserialize(input) ==
  LET e == Element_deserialize(input) IN
  IF e.tag # "Ok" THEN Err(e.err)
  ELSE Ok([type |-> "RegistrationRequest", blinded_element |-> e.val])

----------------------------------------------------------------------------
(* RegistrationResponse                                                    *)

RegistrationResponse_serialize(m) ==
  Element_to_arr(m.evaluation_element) \o PublicKey_to_arr(m.server_s_pk)

(* Faulty variant: the key is not passed through check_public_key.        *)
decode_public_key_unchecked(bytes) == PublicKey_from_bytes(bytes)

(* check_public_key(PublicKey::from_bytes(bytes)?)                         *)
decode_public_key(bytes) ==
  LET pk == PublicKey_from_bytes(bytes) IN
  IF pk.tag # "Ok" THEN pk ELSE check_public_key(pk.val)

RegistrationResponse_deserialize(input) ==
  LET elem_len == ElemLen
      key_len == PkLen
      checked_slice == check_slice_size(input, elem_len + key_len)
  IN
  IF checked_slice.tag # "Ok" THEN Err(checked_slice.err) ELSE
  LET pk_bytes == SliceFrom(checked_slice.val, elem_len) IN
  IF ~pk_bytes.ok THEN Panic ELSE
  LET server_s_pk == decode_public_key(pk_bytes.v) IN
  IF server_s_pk.tag # "Ok" THEN Err(server_s_pk.err) ELSE
  LET elem_bytes == SliceTo(checked_slice.val, elem_len) IN
  IF ~elem_bytes.ok THEN Panic ELSE
  LET evaluation_element == Element_deserialize(elem_bytes.v) IN
  IF evaluation_element.tag # "Ok" THEN Err(evaluation_element.err) ELSE
  Ok([type |-> "RegistrationResponse",
      evaluation_element |-> evaluation_element.val,
      server_s_pk |-> server_s_pk.val])

----------------------------------------------------------------------------
(* RegistrationUpload                                                      *)

(* Faulty variant: the fields in the struct's declaration order.           *)
RegistrationUpload_serialize_envelope_first(m) ==
  Envelope_serialize(m.envelope) \o m.masking_key
    \o PublicKey_to_arr(m.client_s_pk)

RegistrationUpload_serialize(m) ==
  PublicKey_to_arr(m.client_s_pk) \o m.masking_key
    \o Envelope_serialize(m.envelope)

(* Faulty variant: the minimum leaves out the masking key.                 *)
RegistrationUpload_min_len_key_only == PkLen

RegistrationUpload_min_len == PkLen + HashLen

(* Faulty variant: at most Envelope::len() bytes go to the envelope.       *)
RegistrationUpload_envelope_bytes_clipped(checked, key_len, hash_len) ==
  Slice(checked, key_len + hash_len,
        Min(Len(checked), key_len + hash_len + Envelope_len))

(* The bytes handed to Envelope::deserialize: all that follows the key     *)
(* and the masking key.                                                    *)
RegistrationUpload_envelope_bytes(checked, key_len, hash_len) ==
  SliceFrom(checked, key_len + hash_len)

RegistrationUpload_deserialize(input) ==
  LET key_len == PkLen
      hash_len == HashLen
      checked_slice ==
        check_slice_size_atleast(input, RegistrationUpload_min_len)
  IN
  IF checked_slice.tag # "Ok" THEN Err(checked_slice.err) ELSE
  LET env_bytes ==
        RegistrationUpload_envelope_bytes(checked_slice.val, key_len, hash_len)
  IN
  IF ~env_bytes.ok THEN Panic ELSE
  LET envelope == Envelope_deserialize(env_bytes.v) IN
  IF envelope.tag # "Ok" THEN Err(envelope.err) ELSE
  LET mk_bytes == Slice(checked_slice.val, key_len, key_len + hash_len) IN
  IF ~mk_bytes.ok THEN Panic ELSE
  LET pk_bytes == SliceTo(checked_slice.val, key_len) IN
  IF ~pk_bytes.ok THEN Panic ELSE
  LET client_s_pk == decode_public_key(pk_bytes.v) IN
  IF client_s_pk.tag # "Ok" THEN Err(client_s_pk.err) ELSE
  Ok([type |-> "RegistrationUpload",
      envelope |-> envelope.val,
      masking_key |-> mk_bytes.v,
      client_s_pk |-> client_s_pk.val])

(* Faulty variant: the masking-key buffer is left empty.                   *)
RegistrationUpload_dummy_unsized(g, setup) ==
  LET filled == fill_bytes(g, 0) IN
  [upload |-> [type |-> "RegistrationUpload",
               envelope |-> Envelope_dummy,
               masking_key |-> filled.bytes,
               client_s_pk |-> setup.fake_keypair.public],
   rng |-> filled.next]

(* Faulty variant: the server's own public key in place of the fake one.   *)
RegistrationUpload_dummy_server_key(g, setup) ==
  LET filled == fill_bytes(g, HashLen) IN
  [upload |-> [type |-> "RegistrationUpload",
               envelope |-> Envelope_dummy,
               masking_key |-> filled.bytes,
               client_s_pk |-> setup.keypair.public],
   rng |-> filled.next]

(* The upload, and the generator as the call leaves it.                    *)
RegistrationUpload_dummy(g, setup) ==
  LET filled == fill_bytes(g, HashLen) IN
  [upload |-> [type |-> "RegistrationUpload",
               envelope |-> Envelope_dummy,
               masking_key |-> filled.bytes,
               client_s_pk |-> setup.fake_keypair.public],
   rng |-> filled.next]

----------------------------------------------------------------------------
(* CredentialRequest                                                       *)

CredentialRequest_serialize(m) ==
  Element_to_arr(m.blinded_element) \o KE_to_bytes(m.ke1_message)

(* Faulty variant: the identity is let through.                            *)
reject_identity_never(e) == ValOk(e)

(* if element.value().is_identity() { return Err(IdentityGroupElementError) } *)
reject_identity(e) ==
  IF is_identity(e) THEN ValErr("IdentityGroupElementError") ELSE ValOk(e)

CredentialRequest_deserialize(input) ==
  LET elem_len == ElemLen
      checked_slice == check_slice_size_atleast(input, elem_len)
  IN
  IF checked_slice.tag # "Ok" THEN Err(checked_slice.err) ELSE
  LET elem_bytes == SliceTo(checked_slice.val, elem_len) IN
  IF ~elem_bytes.ok THEN Panic ELSE
  LET blinded_element == Element_deserialize(elem_bytes.v) IN
  IF blinded_element.tag # "Ok" THEN Err(blinded_element.err) ELSE
  LET not_identity == reject_identity(blinded_element.val) IN
  IF not_identity.tag # "Ok" THEN Err(not_identity.err) ELSE
  LET ke_bytes == SliceFrom(checked_slice.val, elem_len) IN
  IF ~ke_bytes.ok THEN Panic ELSE
  LET ke1_message == KE_from_bytes(ke_bytes.v, KE1Len) IN
  IF ke1_message.tag # "Ok" THEN Err(ke1_message.err) ELSE
  Ok([type |-> "CredentialRequest",
      blinded_element |-> blinded_element.val,
      ke1_message |-> ke1_message.val])

----------------------------------------------------------------------------
(* CredentialResponse                                                      *)

(* Faulty variant: masked_response before masking_nonce.                   *)
serialize_without_ke_swapped(beta, masking_nonce, masked_response) ==
  Element_to_arr(beta) \o masked_response \o masking_nonce

serialize_without_ke(beta, masking_nonce, masked_response) ==
  Element_to_arr(beta) \o masking_nonce \o masked_response

CredentialResponse_serialize(m) ==
  serialize_without_ke(m.evaluation_element, m.masking_nonce,
                       m.masked_response)
    \o KE_to_bytes(m.ke2_message)

masked_response_len == PkLen + Envelope_len

(* Faulty variant: only the element's length is checked.                  *)
CredentialResponse_min_len_elem_only == ElemLen

CredentialResponse_min_len ==
  ElemLen + NonceLen + masked_response_len + ke2_message_size

CredentialResponse_deserialize(input) ==
  LET elem_len == ElemLen
      nonce_len == NonceLen
      checked_slice ==
        check_slice_size_atleast(input, CredentialResponse_min_len)
  IN
  IF checked_slice.tag # "Ok" THEN Err(checked_slice.err) ELSE
  LET beta_bytes == SliceTo(checked_slice.val, elem_len) IN
  IF ~beta_bytes.ok THEN Panic ELSE
  LET evaluation_element == Element_deserialize(beta_bytes.v) IN
  IF evaluation_element.tag # "Ok" THEN Err(evaluation_element.err) ELSE
  LET not_identity == reject_identity(evaluation_element.val) IN
  IF not_identity.tag # "Ok" THEN Err(not_identity.err) ELSE
  LET masking_nonce == Slice(checked_slice.val, elem_len, elem_len + nonce_len)
  IN
  IF ~masking_nonce.ok THEN Panic ELSE
  LET masked_response ==
        Slice(checked_slice.val, elem_len + nonce_len,
              elem_len + nonce_len + masked_response_len)
  IN
  IF ~masked_response.ok THEN Panic ELSE
  LET ke_bytes ==
        SliceFrom(checked_slice.val, elem_len + nonce_len + masked_response_len)
  IN
  IF ~ke_bytes.ok THEN Panic ELSE
  LET ke2_message == KE_from_bytes(ke_bytes.v, KE2Len) IN
  IF ke2_message.tag # "Ok" THEN Err(ke2_message.err) ELSE
  Ok([type |-> "CredentialResponse",
      evaluation_element |-> evaluation_element.val,
      masking_nonce |-> masking_nonce.v,
      masked_response |-> masked_response.v,
      ke2_message |-> ke2_message.val])

----------------------------------------------------------------------------
(* CredentialFinalization                                                  *)

CredentialFinalization_serialize(m) == KE_to_bytes(m.ke3_message)

CredentialFinalization_deserialize(input) ==
  LET ke3_message == KE_from_bytes(input, KE3Len) IN
  IF ke3_message.tag # "Ok" THEN Err(ke3_message.err)
  ELSE Ok([type |-> "CredentialFinalization",
           ke3_message |-> ke3_message.val])

----------------------------------------------------------------------------
(* The values the operations are applied to.                               *)

Envelopes ==
  {[nonce |-> n, hmac |-> h] : n \in PatSet(EnvNonceLen), h \in PatSet(HashLen)}

KEMessages(len) == {[payload |-> p] : p \in PatSet(len)}

(* Messages as the protocol steps (or the test setters) construct them.    *)
ConstructedMessages ==
  {[type |-> "RegistrationRequest", blinded_element |-> e] : e \in Elements}
  \cup {[type |-> "RegistrationResponse", evaluation_element |-> e,
         server_s_pk |-> pk] : e \in Elements, pk \in Strs(PkLen)}
  \cup {[type |-> "RegistrationUpload", envelope |-> env, masking_key |-> k,
         client_s_pk |-> pk] :
          env \in Envelopes, k \in PatSet(HashLen), pk \in Strs(PkLen)}
  \cup {[type |-> "CredentialRequest", blinded_element |-> e,
         ke1_message |-> ke] : e \in Elements, ke \in KEMessages(KE1Len)}
  \cup {[type |-> "CredentialResponse", evaluation_element |-> e,
         masking_nonce |-> n, masked_response |-> r, ke2_message |-> ke] :
          e \in Elements, n \in PatSet(NonceLen),
          r \in PatSet(masked_response_len), ke \in KEMessages(KE2Len)}
  \cup {[type |-> "CredentialFinalization", ke3_message |-> ke] :
          ke \in KEMessages(KE3Len)}

(* Buffers a peer may send: every field layout, cut short or run long.     *)
Cuts(raw) ==
  {SubSeq(raw \o Pat(0, MaxExtra), 1, n) : n \in 0..(Len(raw) + MaxExtra)}

RawBuffers ==
  {e \o pk : e \in Strs(ElemLen), pk \in Strs(PkLen)}
  \cup {pk \o k \o env : pk \in Strs(PkLen), k \in PatSet(HashLen),
                         env \in PatSet(Envelope_len)}
  \cup {e \o ke : e \in Strs(ElemLen), ke \in PatSet(KE1Len)}
  \cup {e \o n \o r \o ke : e \in Strs(ElemLen), n \in PatSet(NonceLen),
                            r \in PatSet(masked_response_len),
                            ke \in PatSet(KE2Len)}
  \cup PatSet(KE3Len)

NetBuffers == UNION {Cuts(raw) : raw \in RawBuffers}

RngStates == [1..RngLen -> 0..MaxSeed]

SetupKeys == {pk \in PatSet(PkLen) : check_public_key(pk).tag = "Ok"}

ServerSetups ==
  {[keypair |-> [public |-> a], fake_keypair |-> [public |-> b]] :
     a \in SetupKeys, b \in SetupKeys}

(* The setup of a run that calls no dummy: a client, or a server that only *)
(* decodes.                                                                *)
DefaultSetup ==
  [keypair |-> [public |-> Pat(0, PkLen)],
   fake_keypair |-> [public |-> Pat(1, PkLen)]]

NotDecoded == [has |-> FALSE, bytes |-> <<>>]

----------------------------------------------------------------------------
(* The state machine: a message or a buffer in hand, and the operations    *)
(* applied to it.                                                          *)

Init ==
  /\ op = [type |-> "None", fn |-> "init"]
  /\ res = NoRes
  /\ sent = NoMsg
  /\ rcvd = NotDecoded
  /\ calls = <<>>
  /\ \/ /\ msg \in ConstructedMessages
        /\ wire = <<>> /\ have_wire = FALSE
        /\ rng = <<>>
        /\ server_setup = DefaultSetup
     \/ /\ msg = NoMsg
        /\ wire \in NetBuffers /\ have_wire = TRUE
        /\ rng = <<>>
        /\ server_setup = DefaultSetup
     \/ /\ msg = NoMsg
        /\ wire = <<>> /\ have_wire = FALSE
        /\ rng \in RngStates
        /\ server_setup \in ServerSetups

SerializeStep(type, bytes) ==
  /\ msg.type = type
  /\ wire' = bytes
  /\ have_wire' = TRUE
  /\ sent' = msg
  /\ op' = [type |-> type, fn |-> "serialize"]
  /\ UNCHANGED <<msg, res, rcvd, rng, server_setup, calls>>

DeserializeStep(type, result) ==
  /\ have_wire
  /\ res' = result
  /\ msg' = result.msg
  /\ rcvd' = [has |-> result.tag = "Ok", bytes |-> wire]
  /\ op' = [type |-> type, fn |-> "deserialize"]
  /\ UNCHANGED <<wire, have_wire, sent, rng, server_setup, calls>>

SerializeRegistrationRequest ==
  SerializeStep("RegistrationRequest", RegistrationRequest_serialize(msg))

DeserializeRegistrationRequest ==
  DeserializeStep("RegistrationRequest", RegistrationRequest_deserialize(wire))

SerializeRegistrationResponse ==
  SerializeStep("RegistrationResponse", RegistrationResponse_serialize(msg))

DeserializeRegistrationResponse ==
  DeserializeStep("RegistrationResponse",
                  RegistrationResponse_deserialize(wire))

SerializeRegistrationUpload ==
  SerializeStep("RegistrationUpload", RegistrationUpload_serialize(msg))

DeserializeRegistrationUpload ==
  DeserializeStep("RegistrationUpload", RegistrationUpload_deserialize(wire))

SerializeCredentialRequest ==
  SerializeStep("CredentialRequest", CredentialRequest_serialize(msg))

DeserializeCredentialRequest ==
  DeserializeStep("CredentialRequest", CredentialRequest_deserialize(wire))

SerializeCredentialResponse ==
  SerializeStep("CredentialResponse", CredentialResponse_serialize(msg))

DeserializeCredentialResponse ==
  DeserializeStep("CredentialResponse", CredentialResponse_deserialize(wire))

SerializeCredentialFinalization ==
  SerializeStep("CredentialFinalization",
                CredentialFinalization_serialize(msg))

DeserializeCredentialFinalization ==
  DeserializeStep("CredentialFinalization",
                  CredentialFinalization_deserialize(wire))

Dummy ==
  /\ rng # <<>>
  /\ Len(calls) < MaxCalls
  /\ LET out == RegistrationUpload_dummy(rng, server_setup) IN
       /\ msg' = out.upload
       /\ rng' = out.rng
       /\ calls' = Append(calls, [rng |-> rng, setup |-> server_setup,
                                  upload |-> out.upload])
  /\ rcvd' = NotDecoded
  /\ op' = [type |-> "RegistrationUpload", fn |-> "dummy"]
  /\ UNCHANGED <<wire, have_wire, res, sent, server_setup>>

Next ==
  \/ SerializeRegistrationRequest
  \/ DeserializeRegistrationRequest
  \/ SerializeRegistrationResponse
  \/ DeserializeRegistrationResponse
  \/ SerializeRegistrationUpload
  \/ DeserializeRegistrationUpload
  \/ SerializeCredentialRequest
  \/ DeserializeCredentialRequest
  \/ SerializeCredentialResponse
  \/ DeserializeCredentialResponse
  \/ SerializeCredentialFinalization
  \/ DeserializeCredentialFinalization
  \/ Dummy

Spec == Init /\ [][Next]_vars

----------------------------------------------------------------------------
(* Vocabulary of the properties.                                           *)

Did(type, fn) == op = [type |-> type, fn |-> fn]

Field(w, off, len) == SubSeq(w, off + 1, off + len)

DecodesTo(bytes, e) == Element_deserialize(bytes) = ValOk(e)

KeyPasses(key) == check_public_key(key).tag = "Ok"

(* A constructed instance that meets its message type's invariant.         *)
Valid(m) ==
  CASE m.type = "RegistrationResponse" -> KeyPasses(m.server_s_pk)
    [] m.type = "RegistrationUpload" -> KeyPasses(m.client_s_pk)
    [] m.type = "CredentialRequest" -> ~is_identity(m.blinded_element)
    [] m.type = "CredentialResponse" -> ~is_identity(m.evaluation_element)
    [] OTHER -> TRUE

UploadLen == PkLen + HashLen + Envelope_len

ResponseMinLen == ElemLen + NonceLen + PkLen + Envelope_len + KE2Len

----------------------------------------------------------------------------
(* C1  Round trip: deserializing the serialization of a valid constructed  *)
(* message, of any of the six types, succeeds and yields an equal message. *)
C1_RoundTrip ==
  (op.fn = "deserialize" /\ sent.type = op.type /\ Valid(sent))
    => (res = Ok(sent) /\ msg = sent)

C1_Witness ==
  /\ Did("CredentialResponse", "deserialize")
  /\ sent.type = "CredentialResponse"
  /\ Valid(sent)
  /\ msg = sent

----------------------------------------------------------------------------
(* The buffer's first ElemLen bytes decode to the identity element.        *)
IdentityPrefix == Len(wire) >= ElemLen /\ DecodesTo(Field(wire, 0, ElemLen), 0)

NoDecodedIdentity ==
  /\ (Did("CredentialRequest", "deserialize") /\ res.tag = "Ok")
       => ~is_identity(msg.blinded_element)
  /\ (Did("CredentialResponse", "deserialize") /\ res.tag = "Ok")
       => ~is_identity(msg.evaluation_element)

(* C2  Identity rejection, as claimed: CredentialRequest::deserialize and  *)
(* CredentialResponse::deserialize fail with IdentityGroupElementError on  *)
(* every buffer whose first ElemLen bytes decode to the identity, and no   *)
(* decoded CredentialRequest or CredentialResponse carries the identity.   *)
C2_IdentityRejectedOnEveryBuffer ==
  /\ ((Did("CredentialRequest", "deserialize")
        \/ Did("CredentialResponse", "deserialize")) /\ IdentityPrefix)
       => res = Err("IdentityGroupElementError")
  /\ NoDecodedIdentity

(* C2, amended: the same for every buffer that is at least as long as the  *)
(* decoder's minimum (ElemLen for a CredentialRequest, ElemLen + 32 +      *)
(* PkLen + EnvelopeLen + KE2Len for a CredentialResponse); a shorter       *)
(* CredentialResponse buffer fails with a size error instead.              *)
C2_IdentityRejected ==
  /\ (Did("CredentialRequest", "deserialize") /\ IdentityPrefix)
       => res = Err("IdentityGroupElementError")
  /\ (Did("CredentialResponse", "deserialize") /\ IdentityPrefix
        /\ Len(wire) >= ResponseMinLen)
       => res = Err("IdentityGroupElementError")
  /\ (Did("CredentialResponse", "deserialize") /\ Len(wire) < ResponseMinLen)
       => res = Err("SizeError")
  /\ NoDecodedIdentity

C2_Witness ==
  /\ Did("CredentialResponse", "deserialize")
  /\ IdentityPrefix
  /\ Len(wire) = ResponseMinLen
  /\ res = Err("IdentityGroupElementError")

----------------------------------------------------------------------------
(* C3  Exact-length rejection: RegistrationRequest::deserialize fails with *)
(* a size error on every buffer whose length is not ElemLen, and           *)
(* CredentialFinalization::deserialize on every buffer whose length is not *)
(* KE3Len, shorter or longer.                                              *)
C3_ExactLength ==
  /\ (Did("RegistrationRequest", "deserialize") /\ Len(wire) # ElemLen)
       => res = Err("SizeError")
  /\ (Did("CredentialFinalization", "deserialize") /\ Len(wire) # KE3Len)
       => res = Err("SizeError")

C3_Witness ==
  /\ Did("RegistrationRequest", "deserialize")
  /\ Len(wire) > ElemLen
  /\ DecodesTo(Field(wire, 0, ElemLen), 1)
  /\ res = Err("SizeError")

----------------------------------------------------------------------------
(* Inputs shorter than the minimum the decoder computes fail with a size   *)
(* error.                                                                  *)
TooShortRejected ==
  /\ (Did("RegistrationUpload", "deserialize") /\ Len(wire) < PkLen + HashLen)
       => res = Err("SizeError")
  /\ (Did("CredentialRequest", "deserialize") /\ Len(wire) < ElemLen)
       => res = Err("SizeError")
  /\ (Did("CredentialResponse", "deserialize") /\ Len(wire) < ResponseMinLen)
       => res = Err("SizeError")

(* The input is exactly at the decoder's minimum and nothing is left for   *)
(* the trailing payload, which starts at offset `prefix`.                  *)
AtMinimum(type, min, prefix) ==
  Did(type, "deserialize") /\ Len(wire) = min /\ min = prefix

EmptyEnvelope == Envelope_deserialize(<<>>)

EmptyKE1 == KE_from_bytes(<<>>, KE1Len)

EmptyKE2 == KE_from_bytes(<<>>, KE2Len)

(* C4  Minimum-length rejection, as claimed: shorter inputs fail with a    *)
(* size error; at the minimum with an empty trailing payload the input is  *)
(* accepted only if the payload's decoder accepts the empty buffer, and    *)
(* otherwise that decoder's error is what is returned.                     *)
C4_TrailingDecoderErrorAlways ==
  /\ TooShortRejected
  /\ AtMinimum("RegistrationUpload", PkLen + HashLen, PkLen + HashLen)
       => IF EmptyEnvelope.tag = "Ok" THEN TRUE ELSE res = Err(EmptyEnvelope.err)
  /\ AtMinimum("CredentialRequest", ElemLen, ElemLen)
       => IF EmptyKE1.tag = "Ok" THEN TRUE ELSE res = Err(EmptyKE1.err)
  /\ AtMinimum("CredentialResponse", ResponseMinLen, ResponseMinLen - KE2Len)
       => IF EmptyKE2.tag = "Ok" THEN TRUE ELSE res = Err(EmptyKE2.err)

ElementAccepted ==
  \E e \in Elements : ~is_identity(e) /\ DecodesTo(Field(wire, 0, ElemLen), e)

(* C4, amended: as claimed, except that at the minimum the call fails with *)
(* the trailing decoder's error only when the fields decoded before the    *)
(* trailing payload are accepted: a CredentialRequest (or                  *)
(* CredentialResponse) whose element bytes are invalid or the identity     *)
(* fails with the element's error or IdentityGroupElementError.            *)
C4_MinimumLength ==
  /\ TooShortRejected
  /\ AtMinimum("RegistrationUpload", PkLen + HashLen, PkLen + HashLen)
       => IF EmptyEnvelope.tag = "Ok" THEN TRUE ELSE res = Err(EmptyEnvelope.err)
  /\ AtMinimum("CredentialRequest", ElemLen, ElemLen)
       => IF EmptyKE1.tag = "Ok" THEN TRUE
          ELSE /\ res.tag = "Err"
               /\ ElementAccepted => res = Err(EmptyKE1.err)
  /\ AtMinimum("CredentialResponse", ResponseMinLen, ResponseMinLen - KE2Len)
       => IF EmptyKE2.tag = "Ok" THEN TRUE
          ELSE /\ res.tag = "Err"
               /\ ElementAccepted => res = Err(EmptyKE2.err)

C4_Witness ==
  /\ Did("CredentialRequest", "deserialize")
  /\ Len(wire) = ElemLen
  /\ ElementAccepted
  /\ res = Err(EmptyKE1.err)

----------------------------------------------------------------------------
(* C5  Degenerate key rejection: RegistrationResponse::deserialize and     *)
(* RegistrationUpload::deserialize fail on every buffer whose embedded     *)
(* public key does not pass check_public_key, and no decoded message of    *)
(* either type holds a key that fails it.                                  *)
C5_DegenerateKey ==
  /\ (Did("RegistrationResponse", "deserialize")
        /\ Len(wire) >= ElemLen + PkLen
        /\ ~KeyPasses(Field(wire, ElemLen, PkLen)))
       => res.tag = "Err"
  /\ (Did("RegistrationUpload", "deserialize")
        /\ Len(wire) >= PkLen
        /\ ~KeyPasses(Field(wire, 0, PkLen)))
       => res.tag = "Err"
  /\ (Did("RegistrationResponse", "deserialize") /\ res.tag = "Ok")
       => KeyPasses(msg.server_s_pk)
  /\ (Did("RegistrationUpload", "deserialize") /\ res.tag = "Ok")
       => KeyPasses(msg.client_s_pk)

C5_Witness ==
  /\ Did("RegistrationUpload", "deserialize")
  /\ Len(wire) = UploadLen
  /\ ~KeyPasses(Field(wire, 0, PkLen))
  /\ res = Err("PointError")

----------------------------------------------------------------------------
(* m is an upload a call of dummy returned.                                *)
IsDummy(m) == \E i \in 1..Len(calls) : calls[i].upload = m

(* C6  Dummy-upload length: the serialization of a dummy upload has the    *)
(* length of a genuine upload's, PkLen + HashLen + EnvelopeLen, and its    *)
(* envelope part is EnvelopeLen bytes.                                     *)
C6_DummyLength ==
  /\ (Did("RegistrationUpload", "serialize") /\ IsDummy(sent))
       => /\ Len(wire) = UploadLen
          /\ Len(Envelope_serialize(sent.envelope)) = Envelope_len
          /\ Field(wire, PkLen + HashLen, Len(wire) - PkLen - HashLen)
               = Envelope_serialize(sent.envelope)
  /\ (Did("RegistrationUpload", "serialize") /\ sent \in ConstructedMessages)
       => Len(wire) = UploadLen

C6_Witness ==
  /\ Did("RegistrationUpload", "serialize")
  /\ IsDummy(sent)
  /\ Len(wire) = UploadLen

----------------------------------------------------------------------------
(* The bytes a generator in state g yields to a call of dummy.             *)
Yield(g) == fill_bytes(g, HashLen).bytes

DummyKeyFixed ==
  \A i \in 1..Len(calls) :
    /\ calls[i].upload.client_s_pk = calls[i].setup.fake_keypair.public
    /\ calls[i].upload.client_s_pk = server_setup.fake_keypair.public
    /\ calls[i].setup = server_setup
    /\ Len(calls[i].upload.masking_key) = HashLen

(* C7  Dummy-upload key stability, as claimed: two calls with different    *)
(* generator states give different masking keys and the same client public *)
(* key, the setup's fake key; the setup is left as it was.                 *)
C7_DifferentStatesDifferentKeys ==
  /\ DummyKeyFixed
  /\ \A i, j \in 1..Len(calls) :
       calls[i].rng # calls[j].rng
         => calls[i].upload.masking_key # calls[j].upload.masking_key

(* C7, amended: the masking key is the HashLen bytes the generator yields  *)
(* in that call, so two calls give different masking keys exactly when     *)
(* their generators yield different bytes (two different generator states  *)
(* that yield the same next HashLen bytes give the same masking key); the  *)
(* client public key is the setup's fake key in every call and the setup   *)
(* is left as it was.                                                      *)
C7_DummyKeyStability ==
  /\ DummyKeyFixed
  /\ \A i \in 1..Len(calls) : calls[i].upload.masking_key = Yield(calls[i].rng)
  /\ \A i, j \in 1..Len(calls) :
       (Yield(calls[i].rng) # Yield(calls[j].rng))
         <=> (calls[i].upload.masking_key # calls[j].upload.masking_key)

C7_Witness ==
  /\ Len(calls) >= 2
  /\ calls[1].rng # calls[2].rng
  /\ calls[1].upload.masking_key # calls[2].upload.masking_key
  /\ calls[1].upload.client_s_pk = calls[2].upload.client_s_pk
  /\ server_setup.fake_keypair.public # server_setup.keypair.public

----------------------------------------------------------------------------
(* w holds the encodings of m's fields at the offsets of the stated order, *)
(* and nothing more.                                                       *)
Layout(m, w) ==
  CASE m.type = "RegistrationRequest" ->
         /\ Len(w) = ElemLen
         /\ Field(w, 0, ElemLen) = Element_to_arr(m.blinded_element)
    [] m.type = "RegistrationResponse" ->
         /\ Len(w) = ElemLen + PkLen
         /\ Field(w, 0, ElemLen) = Element_to_arr(m.evaluation_element)
         /\ Field(w, ElemLen, PkLen) = m.server_s_pk
    [] m.type = "RegistrationUpload" ->
         /\ Len(w) = PkLen + HashLen + Envelope_len
         /\ Field(w, 0, PkLen) = m.client_s_pk
         /\ Field(w, PkLen, HashLen) = m.masking_key
         /\ Field(w, PkLen + HashLen, Envelope_len)
              = Envelope_serialize(m.envelope)
    [] m.type = "CredentialRequest" ->
         /\ Len(w) = ElemLen + KE1Len
         /\ Field(w, 0, ElemLen) = Element_to_arr(m.blinded_element)
         /\ Field(w, ElemLen, KE1Len) = m.ke1_message.payload
    [] m.type = "CredentialResponse" ->
         /\ Len(w) = ElemLen + NonceLen + PkLen + Envelope_len + KE2Len
         /\ Field(w, 0, ElemLen) = Element_to_arr(m.evaluation_element)
         /\ Field(w, ElemLen, NonceLen) = m.masking_nonce
         /\ Field(w, ElemLen + NonceLen, PkLen + Envelope_len)
              = m.masked_response
         /\ Field(w, ElemLen + NonceLen + PkLen + Envelope_len, KE2Len)
              = m.ke2_message.payload
    [] m.type = "CredentialFinalization" ->
         /\ Len(w) = KE3Len
         /\ Field(w, 0, KE3Len) = m.ke3_message.payload
    [] OTHER -> FALSE

(* C8  Wire layout: each serialization is its fields' encodings laid end   *)
(* to end in the stated order with nothing between, before or after them,  *)
(* and a successful deserialize reads each field from the same offsets.    *)
C8_WireLayout ==
  /\ op.fn = "serialize" => (sent.type = op.type /\ Layout(sent, wire))
  /\ (op.fn = "deserialize" /\ res.tag = "Ok")
       => (msg.type = op.type /\ Layout(msg, wire))

C8_Witness ==
  /\ Did("CredentialResponse", "serialize")
  /\ Layout(sent, wire)
  /\ sent.masking_nonce[1] # sent.masked_response[1]

----------------------------------------------------------------------------
(* The length of a message's encoding.                                     *)
EncodedLen(type) ==
  CASE type = "RegistrationRequest" -> ElemLen
    [] type = "RegistrationResponse" -> ElemLen + PkLen
    [] type = "RegistrationUpload" -> UploadLen
    [] type = "CredentialRequest" -> ElemLen + KE1Len
    [] type = "CredentialResponse" -> ResponseMinLen
    [] type = "CredentialFinalization" -> KE3Len

(* C9  Canonical encoding: a buffer a decoder accepts is the encoding of   *)
(* the message it yields, so serializing that message gives the buffer     *)
(* back, and no accepted buffer is longer than its message's encoding.     *)
C9_Canonical ==
  /\ (op.fn = "serialize" /\ rcvd.has) => wire = rcvd.bytes
  /\ (op.fn = "deserialize" /\ res.tag = "Ok")
       => (Len(wire) = EncodedLen(op.type) /\ rcvd.bytes = wire)

C9_Witness ==
  /\ Did("RegistrationUpload", "serialize")
  /\ rcvd.has
  /\ wire = rcvd.bytes
  /\ Len(wire) = UploadLen

----------------------------------------------------------------------------
(* C10  Bounds check before slicing: on every buffer, of any length, each  *)
(* deserialize returns a message or an error; no slice it takes reaches    *)
(* outside the input.                                                      *)
C10_NoOutOfBounds ==
  op.fn = "deserialize" => res.tag \in {"Ok", "Err"}

C10_Witness ==
  /\ Did("CredentialResponse", "deserialize")
  /\ Len(wire) > ElemLen
  /\ Len(wire) < ResponseMinLen
  /\ \E e \in Elements : ~is_identity(e) /\ DecodesTo(Field(wire, 0, ElemLen), e)
  /\ res = Err("SizeError")

====
